---- MODULE Spec2Model ----
(***************************************************************************)
(* Model of the job queue of video_producer (core/job_manager.py) and of   *)
(* the part of core/video_processor.py that the worker drives.             *)
(*                                                                         *)
(* Threads: the constructor threads (each calls JobManager()), the worker  *)
(* threads they start, one thread inside clear_completed, and callers of   *)
(* add_job / cancel_job, which are short enough to be taken as one step.   *)
(* Job objects live on a heap (objs); the registry (jobs) maps ids to      *)
(* heap handles, in insertion order, as a Python dict does.                *)
(*                                                                         *)
(* The chunked pipeline (core/pipeline.py, core/checkpoint.py, core/io.py) *)
(* is a second component: one process that builds a Pipeline and calls     *)
(* process(), a thread that may call cancel(), and the files they leave    *)
(* on disk (checkpoint, chunk files, final output), which outlive a crash. *)
(***************************************************************************)
EXTENDS Integers, Sequences, FiniteSets, TLC

\* ---------------------------------------------------------------- bounds
MaxJobs == 2          \* add_job calls in one behaviour
MaxStyles == 2        \* the longest job.styles
MaxCallbacks == 2     \* progress callbacks one style pass can make
NumThreads == 2       \* threads that call JobManager()
MaxTotal == 4         \* the largest nb_frames of a pipeline input
MaxRuns == 2          \* Pipeline(...) calls in one behaviour
MaxDim == 5           \* the largest height and width of a frame, in pixels

\* ------------------------------------------------------ program constants
ProgressEvery == 10   \* video_processor.py:193  frame_count % 10 == 0

Threads == 1..NumThreads
Handles == 1..MaxJobs
\* len(job.styles) of the jobs considered
StyleCounts == {1, MaxStyles}
\* metadata['nb_frames'] of the inputs considered
FrameCounts == {0, MaxCallbacks * ProgressEvery}

VARIABLES
  instance,      \* JobManager._instance is not None
  initialized,   \* hasattr(self, 'initialized')
  tpc,           \* position of each constructor thread
  workers,       \* worker threads that have been started
  is_running,    \* self.is_running
  jobs,          \* self.jobs: sequence of [id, obj], dict insertion order
  objs,          \* heap of Job objects, indexed by handle
  job_queue,     \* self.job_queue: FIFO of job ids
  wk,            \* per worker thread: position and locals of _worker/_process_job
  cpc,           \* position of the thread inside clear_completed
  csize,         \* dict size seen when the iteration of self.jobs began
  to_remove,     \* the list clear_completed builds
  pl,            \* the Pipeline object and the locals of process()
  ckpt,          \* the checkpoint file of the pipeline's key
  files,         \* the chunk files on disk
  out,           \* the file at output_path: the chunks it is made of
  store,         \* the files below a CheckpointManager's checkpoint_dir
  op,            \* the last call made on that CheckpointManager
  calc           \* a call of a pure function: its arguments and its result

vars == <<instance, initialized, tpc, workers, is_running, jobs, objs,
          job_queue, wk, cpc, csize, to_remove, pl, ckpt, files, out,
          store, op, calc>>

jmVars == <<instance, initialized, tpc, workers, is_running, jobs, objs,
            job_queue, wk, cpc, csize, to_remove>>
storeVars == <<store, op>>
pipeVars == <<pl, ckpt, files, out, storeVars, calc>>

ctorVars == <<instance, initialized, tpc, workers>>
clearVars == <<cpc, csize, to_remove>>

\* ------------------------------------------------------------ Job record
Terminal(s) == s \in {"Completed", "Failed", "Cancelled"}

\* Job(...) as add_job builds it: the dataclass defaults
NewJob(id, n) ==
  [id |-> id, nstyles |-> n, status |-> "Queued", progress |-> 0,
   error |-> "None", started |-> FALSE]

\* ------------------------------------------------------- registry (dict)
RegKeys(reg) == {reg[i].id : i \in DOMAIN reg}

\* self.jobs.get(job_id): the handle of the Job, or 0 for None
Lookup(reg, id) ==
  IF id \in RegKeys(reg)
  THEN reg[CHOOSE i \in DOMAIN reg : reg[i].id = id].obj
  ELSE 0

\* self.jobs[job_id] = job: a key already present keeps its slot
RegPut(reg, id, h) ==
  IF id \in RegKeys(reg)
  THEN [i \in DOMAIN reg |-> IF reg[i].id = id THEN [id |-> id, obj |-> h] ELSE reg[i]]
  ELSE Append(reg, [id |-> id, obj |-> h])

\* Fields of a Job that the program can no longer read are forgotten
\* (the states that differ in them behave alike). A Job that no worker
\* holds is out of the program's reach when the registry does not refer to
\* it; its id, status and error are kept for the properties. A Job of the
\* registry whose status is terminal and whose id is not in the queue is
\* never handed to _process_job again: its styles and started_at are not
\* read any more.
Held(w) == {w[t].job : t \in DOMAIN w}
RegObjs(reg) == {reg[i].obj : i \in DOMAIN reg}
Queued(q) == {q[i] : i \in DOMAIN q}

Collect(heap, reg, q, w) ==
  [h \in DOMAIN heap |->
     IF h \in Held(w) THEN heap[h]
     ELSE IF h \notin RegObjs(reg)
     THEN [heap[h] EXCEPT !.nstyles = 0, !.progress = 0, !.started = FALSE]
     ELSE IF Terminal(heap[h].status) /\ heap[h].id \notin Queued(q)
     THEN [heap[h] EXCEPT !.nstyles = 0, !.started = FALSE]
     ELSE heap[h]]

\* str(uuid.uuid4())[:8]: the first 8 hex digits of a random uuid. Any
\* 8-digit string can come out, one already handed out included. Ids are
\* numbered in order of first appearance, so the ids that can be drawn are
\* those already seen and one not seen yet.
DrawnIds(heap) == {heap[h].id : h \in DOMAIN heap} \cup {Len(heap) + 1}

\* ------------------------------------------------------- job_manager.py
\* progress_callback: (current / total) * 100 if total > 0 else 0
\* (in whole percent, rounded down)
Progress(current, total) == IF total > 0 THEN (current * 100) \div total ELSE 0

\* cancel_job without the test of line 170
CancelStatusUnguarded(s) == "Cancelled"

\* cancel_job: the status the job has afterwards
CancelStatus(s) == IF s \in {"Queued", "Processing"} THEN "Cancelled" ELSE s

\* _process_job 123-128 without the test of result['success']
FinishStatusIgnoresResult(success) == "Completed"

\* _process_job 123-128: status and error from result['success'];
\* result has no key 'error', so result.get('error', 'Unknown error')
\* is the default
FinishStatus(success) == IF success THEN "Completed" ELSE "Failed"
FinishError(success, old) == IF success THEN old ELSE "Unknown error"

\* the locals of a worker thread that is not inside _process_job
IdleWorker(pc) ==
  [pc |-> pc, id |-> 0, job |-> 0, total |-> 0, style |-> 0, frame |-> 0,
   success |-> TRUE]

TypeOK ==
  /\ instance \in BOOLEAN /\ initialized \in BOOLEAN /\ is_running \in BOOLEAN
  /\ tpc \in [Threads -> {"new", "new_locked", "init", "init_fields",
                          "init_flag", "start", "start_thread", "done"}]
  /\ workers \subseteq Threads
  /\ Len(objs) <= MaxJobs
  /\ \A h \in DOMAIN objs :
       /\ objs[h].status \in {"Queued", "Processing", "Completed", "Failed", "Cancelled"}
       /\ objs[h].nstyles \in StyleCounts \cup {0}
  /\ \A i \in DOMAIN jobs : jobs[i].obj \in DOMAIN objs
  /\ \A w \in Threads :
       wk[w].pc \in {"unborn", "get", "start", "run", "finish", "finish_rest",
                     "except", "exited"}
  /\ cpc \in {"idle", "scan"}

\* ----------------------------------------------------- pipeline: data
\* metadata['nb_frames'] of the inputs considered
TotalCounts == {0, MaxTotal - 1, MaxTotal}
\* chunk_frames = int(self.chunk_duration * self.fps) of the pipelines
\* considered (line 72); all at least 1
ChunkSizes == {2, MaxTotal}
\* the codec and crf arguments of process(): the defaults of lines
\* 59-60, another codec, another crf
Encodings ==
  {[codec |-> "h264_nvenc", crf |-> 18], [codec |-> "libx264", crf |-> 18],
   [codec |-> "h264_nvenc", crf |-> 23]}

Min(a, b) == IF a < b THEN a ELSE b

\* _calculate_chunks with end = current + chunk_frames, without the min
RECURSIVE CalculateChunksUnclamped(_, _, _)
CalculateChunksUnclamped(current, chunk_frames, total) ==
  IF current < total
  THEN <<[start |-> current, end |-> current + chunk_frames]>>
         \o CalculateChunksUnclamped(current + chunk_frames, chunk_frames, total)
  ELSE <<>>

\* _calculate_chunks: the loop of lines 138-141, from current
RECURSIVE CalculateChunks(_, _, _)
CalculateChunks(current, chunk_frames, total) ==
  IF current < total
  THEN LET end == Min(current + chunk_frames, total)
       IN  <<[start |-> current, end |-> end]>>
             \o CalculateChunks(end, chunk_frames, total)
  ELSE <<>>

\* The checkpoint file <key>.json: absent, cut short (opened for writing
\* and not yet written), or holding the dict of lines 103-109
NoCheckpoint ==
  [state |-> "absent", last_frame |-> 0, total_frames |-> 0,
   chunks_completed |-> 0, codec |-> "", crf |-> 0]
TornCheckpoint == [NoCheckpoint EXCEPT !.state = "torn"]
Checkpoint(last, total, n, codec, crf) ==
  [state |-> "valid", last_frame |-> last, total_frames |-> total,
   chunks_completed |-> n, codec |-> codec, crf |-> crf]

\* process() 64-68 with CheckpointManager.load: a file that is absent or
\* does not parse gives None, and start_frame stays 0
StartFrame(has_mgr, c) ==
  IF has_mgr /\ c.state = "valid" THEN c.last_frame ELSE 0

\* process() 123-124 without the clear
CheckpointAfterRunKept(has_mgr, cancelled, c) == c

\* process() 123-124 with CheckpointManager.clear: the checkpoint file
\* after the last lines of process()
CheckpointAfterRun(has_mgr, cancelled, c) ==
  IF has_mgr /\ ~cancelled THEN NoCheckpoint ELSE c

\* A chunk file is named by its range (line 148); n is the number of
\* frames it holds. Writing a chunk file replaces the file of that name.
ChunkFile(c, n) == [start |-> c.start, end |-> c.end, n |-> n]
FilePut(fs, c, n) ==
  {f \in fs : ~(f.start = c.start /\ f.end = c.end)} \cup {ChunkFile(c, n)}
FileOf(fs, c) == CHOOSE f \in fs : f.start = c.start /\ f.end = c.end
HasFile(fs, c) == \E f \in fs : f.start = c.start /\ f.end = c.end
\* for chunk_file in chunk_outputs: unlink(missing_ok=True), all of them
Unlinked(fs, cs) ==
  {f \in fs : \A k \in DOMAIN cs : ~(f.start = cs[k].start /\ f.end = cs[k].end)}

\* a stitch error path that runs the unlink loop of lines 116-117
FilesAfterStitchErrorUnlinked(fs, cs) == Unlinked(fs, cs)

\* process() 116-117 left out after a stitch that raised: nothing is
\* unlinked on that path
FilesAfterStitchError(fs, cs) == fs

\* the chunk files of a list, as the concat of _stitch_chunks reads them
Concat(fs, cs) == [k \in DOMAIN cs |-> FileOf(fs, cs[k])]

RECURSIVE FrameCount(_)
FrameCount(parts) ==
  IF parts = <<>> THEN 0 ELSE Head(parts).n + FrameCount(Tail(parts))

\* ------------------------------------------------------- checkpoint.py
\* A job_id is a string; what matters of it here is how it splits at the
\* path separator, so a key is the sequence of its components.
Keys == {<<"clip">>, <<"take">>, <<"sub", "clip">>}

\* the records saved: the dict of pipeline.py 103-109
Records ==
  {Checkpoint(last, MaxTotal, 1, enc.codec, enc.crf) :
     last \in 1..MaxTotal, enc \in Encodings}

\* json.dump of the dict: the members in insertion order
JsonDump(r) ==
  << <<"last_frame", r.last_frame>>, <<"total_frames", r.total_frames>>,
     <<"chunks_completed", r.chunks_completed>>, <<"codec", r.codec>>,
     <<"crf", r.crf>> >>

\* json.load: the dict of the members; a text that is no JSON document
\* (an empty file) raises, and load returns None
JsonLoad(text) ==
  IF Len(text) = 5
  THEN Checkpoint(text[1][2], text[2][2], text[3][2], text[4][2], text[5][2])
  ELSE NoCheckpoint

\* self.checkpoint_dir / f"{job_id}.json": the directory below
\* checkpoint_dir and the file name in it
CheckpointFile(key) ==
  [dir |-> SubSeq(key, 1, Len(key) - 1), stem |-> key[Len(key)], suffix |-> "json"]

\* __init__ 15-16 makes checkpoint_dir itself and no directory below it
DirExists(dir) == dir = <<>>

FileAt(fs, f) == {x \in fs : x.dir = f.dir /\ x.stem = f.stem /\ x.suffix = f.suffix}

\* open(checkpoint_file, 'w') and json.dump; open raises when the
\* directory of the file does not exist, and save (lines 26-27) logs the
\* exception and returns
Saved(fs, key, r) ==
  LET f == CheckpointFile(key) IN
  IF DirExists(f.dir)
  THEN (fs \ FileAt(fs, f))
         \cup {[dir |-> f.dir, stem |-> f.stem, suffix |-> f.suffix,
                 text |-> JsonDump(r)]}
  ELSE fs

\* load: None when the file does not exist or does not parse
Loaded(fs, key) ==
  LET f == CheckpointFile(key) IN
  IF FileAt(fs, f) = {} THEN NoCheckpoint
  ELSE JsonLoad((CHOOSE x \in FileAt(fs, f) : TRUE).text)

\* clear: unlink(missing_ok=True)
Cleared(fs, key) == fs \ FileAt(fs, CheckpointFile(key))

\* list_checkpoints: f.stem for the files *.json directly in checkpoint_dir
ListCheckpoints(fs) ==
  {<<x.stem>> : x \in {y \in fs : y.dir = <<>> /\ y.suffix = "json"}}

\* What tells two pipeline runs apart: the input file and the stylizer
\* given to Pipeline(...). An input path is its directory, the stem of its
\* file name and the extension.
Inputs ==
  {[dir |-> "a", stem |-> "clip", ext |-> "mp4"],
   [dir |-> "b", stem |-> "clip", ext |-> "mp4"],
   [dir |-> "a", stem |-> "take", ext |-> "mp4"]}
StyleNames == {"Pencil", "Cartoon"}
RunIds == [input : Inputs, style : StyleNames]

\* pipeline.py 45: self.job_id = Path(input_path).stem
JobKey(run) == <<run.input.stem>>

NoOp == [name |-> "none", key |-> <<>>, rec |-> NoCheckpoint]
EmptyStore == store = {} /\ op = NoOp

\* no pure function is being called
NoCalc == [fn |-> "none"]

\* ------------------------------------------------------- ml_session.py
\* infer_tiled on a frame img of h rows and w columns (indices from 0, as
\* in the code) with tiles of TileSize pixels. Weights are kept as
\* numerators over the denominator overlap: alpha = i / overlap is i.
TileSize == 3
Overlaps == {0, 1, 2}
Dtypes == {"uint8", "float32"}

\* a frame without a black pixel
Pixel(r, c) == 1 + ((3 * r + 5 * c) % 255)

\* range(0, n, stride)
Range(n, stride) == {y \in 0..(n - 1) : y % stride = 0}

\* _create_weight_map 134-147: np.ones, then for i in range(overlap) the
\* rows i and -i-1 and the columns i and -i-1 are set to i / overlap
RECURSIVE Feather(_, _, _, _, _)
Feather(weight, th, tw, overlap, i) ==
  IF i >= overlap THEN weight
  ELSE Feather([p \in DOMAIN weight |->
                  IF p[1] \in {i, th - i - 1} \/ p[2] \in {i, tw - i - 1}
                  THEN i ELSE weight[p]],
               th, tw, overlap, i + 1)

CreateWeightMap(th, tw, overlap) ==
  Feather([p \in (0..(th - 1)) \X (0..(tw - 1)) |->
             IF overlap > 0 THEN overlap ELSE 1],
          th, tw, overlap, 0)

\* weight[i, :] and weight[:, i] raise IndexError when the tile has no
\* row or column i
WeightMapRaises(th, tw, overlap) == overlap > th \/ overlap > tw

\* the tiles of lines 85-92: origin and extent
Tiles(h, w, overlap) ==
  {[y1 |-> y, x1 |-> x, th |-> Min(y + TileSize, h) - y,
    tw |-> Min(x + TileSize, w) - x] :
     y \in Range(h, TileSize - overlap), x \in Range(w, TileSize - overlap)}

Covers(t, r, c) ==
  /\ t.y1 <= r /\ r < t.y1 + t.th
  /\ t.x1 <= c /\ c < t.x1 + t.tw

RECURSIVE SumWeights(_, _, _, _)
SumWeights(ts, overlap, r, c) ==
  IF ts = {} THEN 0
  ELSE LET t == CHOOSE x \in ts : TRUE IN
       CreateWeightMap(t.th, t.tw, overlap)[<<r - t.y1, c - t.x1>>]
         + SumWeights(ts \ {t}, overlap, r, c)

\* lines 108-115 for a model that returns its input: weight_map at
\* (r, c) is the sum over the tiles that cover the pixel
WeightAt(h, w, overlap, r, c) ==
  SumWeights({t \in Tiles(h, w, overlap) : Covers(t, r, c)}, overlap, r, c)

\* lines 111-115: every tile adds tile * weight, so output is
\* img * weight_map; divided by max(weight_map, 1e-6) that is the pixel
\* itself (up to the rounding of float32 and the truncation of astype)
\* where weight_map > 0, and 0 / 1e-6 = 0 where it is 0
BlendedPixel(h, w, overlap, r, c) ==
  IF WeightAt(h, w, overlap, r, c) > 0 THEN Pixel(r, c) ELSE 0

\* infer_tiled 66-115. output = np.zeros_like(img) has the dtype of img,
\* and output[...] += result_tile * weight adds a float32 array in place:
\* numpy refuses that for a uint8 output (same_kind casting) and raises
InferTiled(h, w, overlap, dtype) ==
  IF h <= TileSize /\ w <= TileSize
  THEN [raised |-> FALSE, h |-> h, w |-> w,
        img |-> [p \in (0..(h - 1)) \X (0..(w - 1)) |-> Pixel(p[1], p[2])]]
  ELSE IF \/ \E t \in Tiles(h, w, overlap) : WeightMapRaises(t.th, t.tw, overlap)
          \/ dtype = "uint8"
  THEN [raised |-> TRUE, h |-> 0, w |-> 0, img |-> <<>>]
  ELSE [raised |-> FALSE, h |-> h, w |-> w,
        img |-> [p \in (0..(h - 1)) \X (0..(w - 1)) |->
                   BlendedPixel(h, w, overlap, p[1], p[2])]]

\* What is remembered of the run before this one, for the properties
\* only (the program keeps nothing of it in memory): how it ended, and
\* of a run that crashed its encoding and how far it had come
NoRun ==
  [pc |-> "none", codec |-> "", crf |-> 0, start_frame |-> 0,
   frames_processed |-> 0, completed |-> 0]
RunSummary(p) ==
  IF p.pc = "crashed"
  THEN [pc |-> p.pc, codec |-> p.codec, crf |-> p.crf,
        start_frame |-> p.start_frame,
        frames_processed |-> p.frames_processed,
        completed |-> Len(p.chunk_outputs)]
  ELSE [NoRun EXCEPT !.pc = p.pc]

\* no Pipeline object
NoPipeline == [pc |-> "none", runs |-> 0]

\* a constructor that opens its VideoReader before the probe returns
NewPipelineOpened(runs, total, chunk_frames, has_mgr, prev) ==
  [pc |-> "built", runs |-> runs, total_frames |-> total,
   chunk_frames |-> chunk_frames, has_mgr |-> has_mgr,
   is_cancelled |-> FALSE, frames_processed |-> 0, start_frame |-> 0,
   chunks |-> <<>>, i |-> 0, chunk_outputs |-> <<>>, codec |-> "",
   crf |-> 0, err |-> "", opened |-> TRUE, prev |-> prev]

\* Pipeline.__init__ 30-55 after a probe that found total frames
NewPipeline(runs, total, chunk_frames, has_mgr, prev) ==
  [pc |-> "built", runs |-> runs, total_frames |-> total,
   chunk_frames |-> chunk_frames, has_mgr |-> has_mgr,
   is_cancelled |-> FALSE, frames_processed |-> 0, start_frame |-> 0,
   chunks |-> <<>>, i |-> 0, chunk_outputs |-> <<>>, codec |-> "",
   crf |-> 0, err |-> "", opened |-> FALSE, prev |-> prev]

NoPipelineYet ==
  /\ pl = NoPipeline
  /\ ckpt = NoCheckpoint
  /\ files = {}
  /\ out = <<>>

\* ---------------------------------------------------------------- Init
\* Before any thread has called JobManager()
InitCtor ==
  /\ instance = FALSE /\ initialized = FALSE
  /\ tpc = [t \in Threads |-> "new"]
  /\ workers = {}
  /\ is_running = FALSE
  /\ jobs = <<>> /\ objs = <<>> /\ job_queue = <<>>
  /\ wk = [w \in Threads |-> IdleWorker("unborn")]
  /\ cpc = "idle" /\ csize = 0 /\ to_remove = <<>>
  /\ NoPipelineYet
  /\ EmptyStore
  /\ calc = NoCalc

\* After the JobManager() calls have returned one after another: the first
\* built the manager and started worker 1, the later ones found
\* 'initialized' set and did nothing
InitManager ==
  /\ instance = TRUE /\ initialized = TRUE
  /\ tpc = [t \in Threads |-> "done"]
  /\ workers = {1}
  /\ is_running = TRUE
  /\ jobs = <<>> /\ objs = <<>> /\ job_queue = <<>>
  /\ wk = [w \in Threads |-> IF w = 1 THEN IdleWorker("get") ELSE IdleWorker("unborn")]
  /\ cpc = "idle" /\ csize = 0 /\ to_remove = <<>>

\* the manager is built; no Pipeline has been built and the disk is empty
Init == InitManager /\ NoPipelineYet /\ EmptyStore /\ calc = NoCalc

\* ------------------------------------------------- JobManager() __new__
\* line 48: if cls._instance is None
CtorNewCheck(t) ==
  /\ tpc[t] = "new"
  /\ tpc' = [tpc EXCEPT ![t] = IF instance THEN "init" ELSE "new_locked"]
  /\ UNCHANGED <<instance, initialized, workers, is_running, jobs, objs,
                 job_queue, wk, clearVars, pipeVars>>

\* lines 49-52: with cls._lock: the second check and the creation
CtorNewLocked(t) ==
  /\ tpc[t] = "new_locked"
  /\ instance' = TRUE
  /\ tpc' = [tpc EXCEPT ![t] = "init"]
  /\ UNCHANGED <<initialized, workers, is_running, jobs, objs, job_queue,
                 wk, clearVars, pipeVars>>

\* ------------------------------------------------------------- __init__
\* line 55: if not hasattr(self, 'initialized'), taken without a lock
CtorInitCheck(t) ==
  /\ tpc[t] = "init"
  /\ tpc' = [tpc EXCEPT ![t] = IF initialized THEN "done" ELSE "init_fields"]
  /\ UNCHANGED <<instance, initialized, workers, is_running, jobs, objs,
                 job_queue, wk, clearVars, pipeVars>>

\* lines 56-59: a new dict, a new Queue, is_running = False
CtorInitFields(t) ==
  /\ tpc[t] = "init_fields"
  /\ jobs' = <<>>
  /\ job_queue' = <<>>
  /\ objs' = Collect(objs, jobs', job_queue', wk)
  /\ is_running' = FALSE
  /\ tpc' = [tpc EXCEPT ![t] = "init_flag"]
  /\ UNCHANGED <<instance, initialized, workers, wk, clearVars, pipeVars>>

\* line 60: self.initialized = True
CtorInitFlag(t) ==
  /\ tpc[t] = "init_flag"
  /\ initialized' = TRUE
  /\ tpc' = [tpc EXCEPT ![t] = "start"]
  /\ UNCHANGED <<instance, workers, is_running, jobs, objs, job_queue, wk,
                 clearVars, pipeVars>>

\* _start_worker, line 65: if not self.is_running
CtorStartCheck(t) ==
  /\ tpc[t] = "start"
  /\ tpc' = [tpc EXCEPT ![t] = IF is_running THEN "done" ELSE "start_thread"]
  /\ UNCHANGED <<instance, initialized, workers, is_running, jobs, objs,
                 job_queue, wk, clearVars, pipeVars>>

\* _start_worker, lines 66-68: the thread started by constructor thread t
\* is worker t
CtorStartThread(t) ==
  /\ tpc[t] = "start_thread"
  /\ is_running' = TRUE
  /\ workers' = workers \cup {t}
  /\ wk' = [wk EXCEPT ![t] = IdleWorker("get")]
  /\ tpc' = [tpc EXCEPT ![t] = "done"]
  /\ UNCHANGED <<instance, initialized, jobs, objs, job_queue, clearVars, pipeVars>>

\* a caller holds the manager once its own JobManager() call has returned
CallerReady == \E t \in Threads : tpc[t] = "done"

\* -------------------------------------------------------------- add_job
AddJob ==
  /\ CallerReady
  /\ Len(objs) < MaxJobs
  /\ \E id \in DrawnIds(objs), n \in StyleCounts :
       LET h == Len(objs) + 1 IN
       /\ jobs' = RegPut(jobs, id, h)
       /\ job_queue' = Append(job_queue, id)
       /\ objs' = Collect(Append(objs, NewJob(id, n)), jobs', job_queue', wk)
  /\ UNCHANGED <<ctorVars, is_running, wk, clearVars, pipeVars>>

\* ----------------------------------------------------------- cancel_job
CancelJob(id) ==
  /\ CallerReady
  /\ LET h == Lookup(jobs, id) IN
       IF h # 0
       THEN objs' = [objs EXCEPT ![h].status = CancelStatus(@)]
       ELSE objs' = objs
  /\ UNCHANGED <<ctorVars, is_running, jobs, job_queue, wk, clearVars, pipeVars>>

\* ------------------------------------------------------ clear_completed
\* [jid for jid, job in self.jobs.items() if job.status in [...]]
TerminalIds(reg, heap) ==
  LET term == SelectSeq(reg, LAMBDA e : Terminal(heap[e.obj].status))
  IN  [i \in DOMAIN term |-> term[i].id]

\* del self.jobs[jid] for every jid of a list
RegDelAll(reg, ids) ==
  SelectSeq(reg, LAMBDA e : \A k \in DOMAIN ids : ids[k] # e.id)

\* lines 176-177: the list comprehension iterates self.jobs.items(). The
\* thread is taken to visit the items the dict holds without being
\* interrupted; it can be interrupted before the call of next() that
\* would end the iteration.
ClearBegin ==
  /\ CallerReady
  /\ cpc = "idle"
  /\ cpc' = "scan"
  /\ csize' = Len(jobs)
  /\ to_remove' = TerminalIds(jobs, objs)
  /\ UNCHANGED <<ctorVars, is_running, jobs, objs, job_queue, wk, pipeVars>>

\* line 176: the last next() of the dict iterator raises RuntimeError
\* when the dict changed size since the iteration began; the exception
\* leaves clear_completed before anything is deleted
ClearRaise ==
  /\ cpc = "scan"
  /\ Len(jobs) # csize
  /\ cpc' = "idle"
  /\ csize' = 0
  /\ to_remove' = <<>>
  /\ UNCHANGED <<ctorVars, is_running, jobs, objs, job_queue, wk, pipeVars>>

\* lines 176-180: the iteration ends and the loop deletes every listed id
ClearDel ==
  /\ cpc = "scan"
  /\ Len(jobs) = csize
  /\ jobs' = RegDelAll(jobs, to_remove)
  /\ objs' = Collect(objs, jobs', job_queue, wk)
  /\ cpc' = "idle"
  /\ csize' = 0
  /\ to_remove' = <<>>
  /\ UNCHANGED <<ctorVars, is_running, job_queue, wk, pipeVars>>

\* -------------------------------------------------------------- _worker
\* lines 73-78 and 86-88: the loop test, job_queue.get, and the lookup
\* that opens _process_job; an id the registry no longer holds is dropped
WorkerGet(w) ==
  /\ w \in workers
  /\ wk[w].pc = "get"
  /\ is_running
  /\ job_queue # <<>>
  /\ job_queue' = Tail(job_queue)
  /\ LET id == Head(job_queue)
         h == Lookup(jobs, id) IN
       wk' = [wk EXCEPT ![w] = IF h = 0 THEN IdleWorker("get")
                               ELSE [IdleWorker("start") EXCEPT !.id = id, !.job = h]]
  /\ UNCHANGED <<ctorVars, is_running, jobs, objs, clearVars, pipeVars>>

\* line 73: while self.is_running, found false
WorkerExit(w) ==
  /\ w \in workers
  /\ wk[w].pc = "get"
  /\ ~is_running
  /\ wk' = [wk EXCEPT ![w].pc = "exited"]
  /\ UNCHANGED <<ctorVars, is_running, jobs, objs, job_queue, clearVars, pipeVars>>

\* --------------------------------------------------------- _process_job
\* lines 92-105: job.status = 'Processing', whatever the status was,
\* and VideoProcessor(...) returns; the probe found nb_frames
WorkerStart(w) ==
  /\ w \in workers
  /\ wk[w].pc = "start"
  /\ objs' = [objs EXCEPT ![wk[w].job].status = "Processing",
                          ![wk[w].job].started = TRUE]
  /\ \E total \in FrameCounts :
       wk' = [wk EXCEPT ![w].total = total,
                        ![w].style = 1,
                        ![w].frame = 0,
                        ![w].success = TRUE,
                        ![w].pc = IF objs[wk[w].job].nstyles = 0
                                  THEN "finish" ELSE "run"]
  /\ UNCHANGED <<ctorVars, is_running, jobs, job_queue, clearVars, pipeVars>>

\* lines 92-105: job.status = 'Processing', and VideoProcessor(...)
\* raises (mkdir, probe, analysis)
WorkerStartRaise(w) ==
  /\ w \in workers
  /\ wk[w].pc = "start"
  /\ objs' = [objs EXCEPT ![wk[w].job].status = "Processing",
                          ![wk[w].job].started = TRUE]
  /\ wk' = [wk EXCEPT ![w].pc = "except"]
  /\ UNCHANGED <<ctorVars, is_running, jobs, job_queue, clearVars, pipeVars>>

\* -------------------------------- VideoProcessor._analyze_and_optimize
\* what analyze_video returns for the frames sampled: with no frame
\* _get_default_characteristics(), else the means it computes
Characteristics(samples) == IF samples = 0 THEN "default" ELSE "computed"

\* video_processor.py 73-81: the reader raises while frames are sampled,
\* after samples frames were kept; the except logs it, analyze_video gets
\* the frames kept so far, and VideoProcessor(...) returns as in
\* WorkerStart. (Without frames in the input, line 67 returns before the
\* reader is opened.)
WorkerSampleRaise(w) ==
  /\ w \in workers
  /\ wk[w].pc = "start"
  /\ objs' = [objs EXCEPT ![wk[w].job].status = "Processing",
                          ![wk[w].job].started = TRUE]
  /\ \E total \in FrameCounts \ {0} :
       wk' = [wk EXCEPT ![w].total = total,
                        ![w].style = 1,
                        ![w].frame = 0,
                        ![w].success = TRUE,
                        ![w].pc = IF objs[wk[w].job].nstyles = 0
                                  THEN "finish" ELSE "run"]
  /\ \E samples \in {0, 1} :
       calc' = [fn |-> "analyze_video", sampling |-> "raised",
                samples |-> samples, raised |-> FALSE,
                characteristics |-> Characteristics(samples)]
  /\ UNCHANGED <<ctorVars, is_running, jobs, job_queue, clearVars, pl, ckpt,
                 files, out, storeVars>>

\* pattern_learner.py 31-56: cv2 or numpy raises on a sampled frame.
\* Neither analyze_video nor _analyze_and_optimize (video_processor.py
\* 43-60) nor __init__ catches it: it leaves VideoProcessor(...) as in
\* WorkerStartRaise
WorkerAnalyzeRaise(w) ==
  /\ w \in workers
  /\ wk[w].pc = "start"
  /\ objs' = [objs EXCEPT ![wk[w].job].status = "Processing",
                          ![wk[w].job].started = TRUE]
  /\ wk' = [wk EXCEPT ![w].pc = "except"]
  /\ calc' = [fn |-> "analyze_video", sampling |-> "done", samples |-> 1,
              raised |-> TRUE, characteristics |-> "none"]
  /\ UNCHANGED <<ctorVars, is_running, jobs, job_queue, clearVars, pl, ckpt,
                 files, out, storeVars>>

\* ------------------------------ VideoProcessor.process, one style pass
\* the style after this one, or the return of process()
NextStyle(w) ==
  [wk EXCEPT ![w].style = @ + 1,
             ![w].frame = 0,
             ![w].pc = IF wk[w].style + 1 > objs[wk[w].job].nstyles
                       THEN "finish" ELSE "run"]

\* _process_single_style 183-200: the frames up to the next multiple of
\* ProgressEvery, then progress_callback (job_manager.py 108-117); more
\* frames follow
WorkerFrames(w) ==
  /\ w \in workers
  /\ wk[w].pc = "run"
  /\ wk[w].frame + ProgressEvery < wk[w].total
  /\ LET current == wk[w].frame + ProgressEvery IN
       /\ wk' = [wk EXCEPT ![w].frame = current]
       /\ objs' = [objs EXCEPT ![wk[w].job].progress = Progress(current, wk[w].total)]
  /\ UNCHANGED <<ctorVars, is_running, jobs, job_queue, clearVars, pipeVars>>

\* _process_single_style 183-202: the frames up to the end of the stream,
\* with the callback of the last one if it is due; then lines 106, 89
WorkerStyleDone(w) ==
  /\ w \in workers
  /\ wk[w].pc = "run"
  /\ wk[w].frame + ProgressEvery >= wk[w].total
  /\ wk' = NextStyle(w)
  /\ objs' = IF wk[w].frame + ProgressEvery = wk[w].total
             THEN [objs EXCEPT ![wk[w].job].progress = Progress(wk[w].total, wk[w].total)]
             ELSE objs
  /\ UNCHANGED <<ctorVars, is_running, jobs, job_queue, clearVars, pipeVars>>

\* lines 108-111: the style raised; process() records it and goes on
WorkerStyleRaise(w) ==
  /\ w \in workers
  /\ wk[w].pc = "run"
  /\ wk' = [NextStyle(w) EXCEPT ![w].success = FALSE]
  /\ UNCHANGED <<ctorVars, is_running, jobs, objs, job_queue, clearVars, pipeVars>>

\* job_manager.py 123-130, then task_done and the loop
WorkerFinish(w) ==
  /\ w \in workers
  /\ wk[w].pc = "finish"
  /\ wk' = [wk EXCEPT ![w] = IdleWorker("get")]
  /\ LET h == wk[w].job
         ok == wk[w].success IN
       objs' = Collect([objs EXCEPT ![h].status = FinishStatus(ok),
                                    ![h].progress = IF ok THEN 100 ELSE @,
                                    ![h].error = FinishError(ok, @)],
                       jobs, job_queue, wk')
  /\ UNCHANGED <<ctorVars, is_running, jobs, job_queue, clearVars, pipeVars>>

\* job_manager.py 124 or 127 alone: job.status is assigned; the other
\* fields of the Job still have their values from before the update, and
\* nothing keeps another thread from reading the object now
WorkerFinishStatus(w) ==
  /\ w \in workers
  /\ wk[w].pc = "finish"
  /\ wk' = [wk EXCEPT ![w].pc = "finish_rest"]
  /\ objs' = [objs EXCEPT ![wk[w].job].status = FinishStatus(wk[w].success)]
  /\ UNCHANGED <<ctorVars, is_running, jobs, job_queue, clearVars, pipeVars>>

\* job_manager.py 125 or 128, and 130: the assignments after the status,
\* then task_done and the loop
WorkerFinishRest(w) ==
  /\ w \in workers
  /\ wk[w].pc = "finish_rest"
  /\ wk' = [wk EXCEPT ![w] = IdleWorker("get")]
  /\ LET h == wk[w].job
         ok == wk[w].success IN
       objs' = Collect([objs EXCEPT ![h].progress = IF ok THEN 100 ELSE @,
                                    ![h].error = FinishError(ok, @)],
                       jobs, job_queue, wk')
  /\ UNCHANGED <<ctorVars, is_running, jobs, job_queue, clearVars, pipeVars>>

\* job_manager.py 132-136, then task_done and the loop
WorkerExcept(w) ==
  /\ w \in workers
  /\ wk[w].pc = "except"
  /\ wk' = [wk EXCEPT ![w] = IdleWorker("get")]
  /\ objs' = Collect([objs EXCEPT ![wk[w].job].status = "Failed",
                                  ![wk[w].job].error = "exc"],
                     jobs, job_queue, wk')
  /\ UNCHANGED <<ctorVars, is_running, jobs, job_queue, clearVars, pipeVars>>

\* ------------------------------------------- CheckpointManager calls
\* save(job_id, state)
StoreSave(key, r) ==
  /\ store' = Saved(store, key, r)
  /\ op' = [name |-> "save", key |-> key, rec |-> r]
  /\ UNCHANGED <<jmVars, pl, ckpt, files, out, calc>>

\* clear(job_id)
StoreClear(key) ==
  /\ store' = Cleared(store, key)
  /\ op' = [name |-> "clear", key |-> key, rec |-> NoCheckpoint]
  /\ UNCHANGED <<jmVars, pl, ckpt, files, out, calc>>

\* pipeline.py 102-109: the run saves a checkpoint under its job_id
RunSave(run, r) == StoreSave(JobKey(run), r)

\* pipeline.py 123-124: the run clears the checkpoint of its job_id
RunClear(run) == StoreClear(JobKey(run))

\* --------------------------------- Pipeline.process, the chunk list
\* io.py 51: fps = eval(r_frame_rate), the quotient of two integers
FrameRates ==
  {[num |-> 30, den |-> 1], [num |-> 25, den |-> 1],
   [num |-> 30000, den |-> 1001], [num |-> 1, den |-> 2]}
\* chunk_duration, in seconds
ChunkDurations == {1, 5, 10}
FrameTotals == {0, 3, 300}
StartFrames == {0, 150, 300}
\* the iterations of the while loop that are followed
MaxLoop == 16

\* int(x) of a non-negative quotient num / den: the fraction is dropped
IntOf(num, den) == num \div den

\* line 72: chunk_frames = int(self.chunk_duration * self.fps)
ChunkFrames(chunk_duration, fps) == IntOf(chunk_duration * fps.num, fps.den)

\* lines 63-72: start_frame is taken and chunk_frames is computed
ProcessChunkFrames ==
  /\ calc.fn = "process"
  /\ calc.pc = "start"
  /\ calc' = [calc EXCEPT !.pc = "while",
                          !.chunk_frames = ChunkFrames(calc.chunk_duration, calc.fps),
                          !.current = calc.start_frame]
  /\ UNCHANGED <<jmVars, pl, ckpt, files, out, storeVars>>

\* _calculate_chunks, lines 138-141: one iteration of the while loop
CalculateChunksStep ==
  /\ calc.fn = "process"
  /\ calc.pc = "while"
  /\ calc.current < calc.total_frames
  /\ Len(calc.chunks) < MaxLoop
  /\ LET end == Min(calc.current + calc.chunk_frames, calc.total_frames) IN
     calc' = [calc EXCEPT !.chunks = Append(@, [start |-> calc.current, end |-> end]),
                          !.current = end]
  /\ UNCHANGED <<jmVars, pl, ckpt, files, out, storeVars>>

\* _calculate_chunks, lines 138 and 143: the condition is false, the list
\* is returned
CalculateChunksReturn ==
  /\ calc.fn = "process"
  /\ calc.pc = "while"
  /\ calc.current >= calc.total_frames
  /\ calc' = [calc EXCEPT !.pc = "returned"]
  /\ UNCHANGED <<jmVars, pl, ckpt, files, out, storeVars>>

\* ------------------------------------------ VideoProcessor._scale_params
\* pattern_learner.py 100-105: the num_colors of _optimize_cartoon
NumColorsTable == {6, 8, 12}
\* effect_intensity in tenths: the slider goes from 0.1 to 2.0 by 0.1
Intensities == 1..20
\* pattern_learner.py 107-117: the dict _optimize_cartoon returns
CartoonParams ==
  {[num_colors |-> n, edge_threshold1 |-> e.t1, edge_threshold2 |-> e.t2] :
     n \in NumColorsTable, e \in {[t1 |-> 30, t2 |-> 120], [t1 |-> 50, t2 |-> 150]}}

\* int(x) of a quotient of either sign: the fraction is dropped, towards 0
IntTrunc(num, den) ==
  IF num >= 0 THEN num \div den ELSE 0 - ((0 - num) \div den)

\* lines 149-152: int(original - (original - value) * intensity), with
\* original = 16 and the intensity in tenths
ScaleNumColors(value, tenths) == IntTrunc(160 - (16 - value) * tenths, 10)

\* lines 141-157 on the dict of a Cartoon style: num_colors is scaled, the
\* edge thresholds are in none of the key lists and stay
ScaleParams(params, tenths) ==
  [params EXCEPT !.num_colors = ScaleNumColors(params.num_colors, tenths)]

\* _get_stylizer, line 124: params = self._scale_params(params, intensity)
CallScaleParams ==
  /\ calc.fn = "scale_params"
  /\ ~calc.done
  /\ calc' = [calc EXCEPT !.done = TRUE,
                          !.scaled = ScaleParams(calc.params, calc.intensity)]
  /\ UNCHANGED <<jmVars, pl, ckpt, files, out, storeVars>>

\* ------------------------------------------------ MLSession.infer_tiled
CallInferTiled ==
  /\ calc.fn = "infer_tiled"
  /\ ~calc.done
  /\ calc' = [calc EXCEPT !.done = TRUE,
                          !.out = InferTiled(calc.h, calc.w, calc.overlap,
                                             calc.dtype)]
  /\ UNCHANGED <<jmVars, pl, ckpt, files, out, storeVars>>

\* ------------------------------------------------- Pipeline.__init__
\* a process builds a Pipeline when none is at work
PipeReady ==
  /\ pl.pc \in {"none", "returned", "raised", "crashed"}
  /\ pl.runs < MaxRuns

\* The arguments of Pipeline(...) and the input file: every run of a
\* behaviour is the same call on the same file (a run is repeated after
\* a crash, a failure or a cancellation)
PipeArgs ==
  IF pl.pc = "none"
  THEN {[total |-> t, chunk_frames |-> c, has_mgr |-> m] :
          t \in TotalCounts, c \in ChunkSizes, m \in BOOLEAN}
  ELSE {[total |-> pl.total_frames, chunk_frames |-> pl.chunk_frames,
         has_mgr |-> pl.has_mgr]}

\* lines 30-55: the probe of line 38 returns the metadata
PipeNew ==
  /\ PipeReady
  /\ \E a \in PipeArgs :
       pl' = NewPipeline(pl.runs + 1, a.total, a.chunk_frames, a.has_mgr,
                         RunSummary(pl))
  /\ UNCHANGED <<jmVars, storeVars, calc, ckpt, files, out>>

\* line 38: VideoProbe.probe raises (io.py 45, 72-77); __init__ is left
\* before the CheckpointManager is built and no object exists
PipeNewRaise ==
  /\ PipeReady
  /\ \E a \in PipeArgs :
       pl' = [NewPipeline(pl.runs + 1, a.total, a.chunk_frames, a.has_mgr,
                          RunSummary(pl))
                EXCEPT !.pc = "raised", !.err = "probe"]
  /\ UNCHANGED <<jmVars, storeVars, calc, ckpt, files, out>>

\* ---------------------------------------------------- Pipeline.process
\* lines 63-78: the checkpoint is loaded and the chunks are calculated
PipeLoad ==
  /\ pl.pc = "built"
  /\ \E enc \in Encodings :
       LET start == StartFrame(pl.has_mgr, ckpt) IN
       pl' = [pl EXCEPT !.pc = "loop", !.codec = enc.codec, !.crf = enc.crf,
                        !.start_frame = start,
                        !.chunks = CalculateChunks(start, pl.chunk_frames,
                                                   pl.total_frames),
                        !.i = 1]
  /\ UNCHANGED <<jmVars, storeVars, calc, ckpt, files, out>>

\* cancel(), called by another thread while the object exists
PipeCancel ==
  /\ pl.pc \in {"built", "loop", "chunk", "save", "save_write", "stitch",
                "cleanup", "clear"}
  /\ ~pl.is_cancelled
  /\ pl' = [pl EXCEPT !.is_cancelled = TRUE]
  /\ UNCHANGED <<jmVars, storeVars, calc, ckpt, files, out>>

\* a loop head that does not look at is_cancelled
CancelSeenNever(p) == FALSE

\* lines 81-83: `if self.is_cancelled:` at the head of each iteration
CancelSeen(p) == p.is_cancelled

\* lines 80-83: the list is exhausted, or is_cancelled is found set
PipeLoopExit ==
  /\ pl.pc = "loop"
  /\ pl.i > Len(pl.chunks) \/ CancelSeen(pl)
  /\ pl' = [pl EXCEPT !.pc = "stitch"]
  /\ UNCHANGED <<jmVars, storeVars, calc, ckpt, files, out>>

\* lines 81-87 and 148-162: is_cancelled is found clear; the reader is
\* opened and the encoder is started on the chunk file (ffmpeg -y)
PipeChunkOpen ==
  /\ pl.pc = "loop"
  /\ pl.i <= Len(pl.chunks)
  /\ ~CancelSeen(pl)
  /\ pl' = [pl EXCEPT !.pc = "chunk", !.opened = TRUE]
  /\ files' = FilePut(files, pl.chunks[pl.i], 0)
  /\ UNCHANGED <<jmVars, storeVars, calc, ckpt, out>>

\* lines 94-99 and the head of the next iteration or of save
AfterChunk(p) ==
  [p EXCEPT !.chunk_outputs = Append(@, p.chunks[p.i]),
            !.frames_processed = p.chunks[p.i].end,
            !.pc = IF p.has_mgr THEN "save" ELSE "loop",
            !.i = IF p.has_mgr THEN @ ELSE @ + 1]

\* lines 164-175: every frame of the chunk is written and the encoder
\* ends with exit status 0
PipeChunkDone ==
  /\ pl.pc = "chunk"
  /\ LET c == pl.chunks[pl.i] IN files' = FilePut(files, c, c.end - c.start)
  /\ pl' = AfterChunk(pl)
  /\ UNCHANGED <<jmVars, storeVars, calc, ckpt, out>>

\* io.py 213-226: the encoder ends with a non-zero exit status after
\* taking the frames; _finish_encoder logs it and returns, and
\* _process_chunk returns the name of a file that lacks frames (here: it
\* holds none)
PipeChunkEncoderExit ==
  /\ pl.pc = "chunk"
  /\ files' = FilePut(files, pl.chunks[pl.i], 0)
  /\ pl' = AfterChunk(pl)
  /\ UNCHANGED <<jmVars, storeVars, calc, ckpt, out>>

\* io.py 109, 211: the decode raises, or the write to the pipe of an
\* encoder that is gone raises; the exception leaves process()
PipeChunkRaise ==
  /\ pl.pc = "chunk"
  /\ pl' = [pl EXCEPT !.pc = "raised", !.err = "encode"]
  /\ UNCHANGED <<jmVars, storeVars, calc, ckpt, files, out>>

\* checkpoint.py 23: open(checkpoint_file, 'w') empties the file
PipeSaveOpen ==
  /\ pl.pc = "save"
  /\ ckpt' = TornCheckpoint
  /\ pl' = [pl EXCEPT !.pc = "save_write"]
  /\ UNCHANGED <<jmVars, storeVars, calc, files, out>>

\* checkpoint.py 24: json.dump writes the dict of lines 103-109
PipeSaveWrite ==
  /\ pl.pc = "save_write"
  /\ ckpt' = Checkpoint(pl.chunks[pl.i].end, pl.total_frames, pl.i,
                        pl.codec, pl.crf)
  /\ pl' = [pl EXCEPT !.pc = "loop", !.i = @ + 1]
  /\ UNCHANGED <<jmVars, storeVars, calc, files, out>>

\* checkpoint.py 26-27: open or json.dump raises; save logs the error
\* and returns
PipeSaveFail ==
  /\ pl.pc \in {"save", "save_write"}
  /\ pl' = [pl EXCEPT !.pc = "loop", !.i = @ + 1]
  /\ UNCHANGED <<jmVars, storeVars, calc, ckpt, files, out>>

\* lines 112-114: more than one chunk; the concat succeeds
PipeStitch ==
  /\ pl.pc = "stitch"
  /\ Len(pl.chunk_outputs) > 1
  /\ out' = Concat(files, pl.chunk_outputs)
  /\ pl' = [pl EXCEPT !.pc = "cleanup"]
  /\ UNCHANGED <<jmVars, storeVars, calc, ckpt, files>>

\* line 199: subprocess.run(check=True) raises CalledProcessError, which
\* leaves _stitch_chunks and process()
PipeStitchRaise ==
  /\ pl.pc = "stitch"
  /\ Len(pl.chunk_outputs) > 1
  /\ files' = FilesAfterStitchError(files, pl.chunk_outputs)
  /\ pl' = [pl EXCEPT !.pc = "raised", !.err = "stitch"]
  /\ UNCHANGED <<jmVars, storeVars, calc, ckpt, out>>

\* lines 116-117
PipeCleanup ==
  /\ pl.pc = "cleanup"
  /\ files' = Unlinked(files, pl.chunk_outputs)
  /\ pl' = [pl EXCEPT !.pc = "clear"]
  /\ UNCHANGED <<jmVars, storeVars, calc, ckpt, out>>

\* lines 118-120: one chunk; its file is renamed to output_path
PipeRename ==
  /\ pl.pc = "stitch"
  /\ Len(pl.chunk_outputs) = 1
  /\ out' = <<FileOf(files, pl.chunk_outputs[1])>>
  /\ files' = Unlinked(files, pl.chunk_outputs)
  /\ pl' = [pl EXCEPT !.pc = "clear"]
  /\ UNCHANGED <<jmVars, storeVars, calc, ckpt>>

\* lines 112, 118: no chunk; output_path is not touched
PipeNoChunk ==
  /\ pl.pc = "stitch"
  /\ Len(pl.chunk_outputs) = 0
  /\ pl' = [pl EXCEPT !.pc = "clear"]
  /\ UNCHANGED <<jmVars, storeVars, calc, ckpt, files, out>>

\* lines 122-131: the checkpoint is cleared unless cancelled; process()
\* returns with 'success': not self.is_cancelled
PipeReturn ==
  /\ pl.pc = "clear"
  /\ ckpt' = CheckpointAfterRun(pl.has_mgr, pl.is_cancelled, ckpt)
  /\ pl' = [pl EXCEPT !.pc = "returned"]
  /\ UNCHANGED <<jmVars, storeVars, calc, files, out>>

\* the process dies inside process(); the files stay as they are
PipeCrash ==
  /\ pl.pc \in {"loop", "chunk", "save", "save_write", "stitch", "cleanup",
                "clear"}
  /\ pl' = [pl EXCEPT !.pc = "crashed"]
  /\ UNCHANGED <<jmVars, storeVars, calc, ckpt, files, out>>

\* -------------------------------------------------------- specifications
WorkerStep(w) ==
  \/ WorkerGet(w)
  \/ WorkerStart(w)
  \/ WorkerStartRaise(w)
  \/ WorkerFrames(w)
  \/ WorkerStyleDone(w)
  \/ WorkerStyleRaise(w)
  \/ WorkerFinish(w)
  \/ WorkerExcept(w)

Next ==
  \/ AddJob
  \/ \E id \in 1..MaxJobs : CancelJob(id)
  \/ ClearBegin
  \/ ClearRaise
  \/ ClearDel
  \/ \E w \in Threads : WorkerStep(w)

\* the manager after construction, its callers and its worker
Spec == Init /\ [][Next]_vars

\* the scheduler runs a thread that can run
FairSpec == Spec /\ \A w \in Threads : WF_vars(WorkerStep(w))

CtorStep(t) ==
  \/ CtorNewCheck(t)
  \/ CtorNewLocked(t)
  \/ CtorInitCheck(t)
  \/ CtorInitFields(t)
  \/ CtorInitFlag(t)
  \/ CtorStartCheck(t)
  \/ CtorStartThread(t)

NextCtor ==
  \/ \E t \in Threads : CtorStep(t)
  \/ AddJob
  \/ \E id \in 1..MaxJobs : CancelJob(id)
  \/ \E w \in Threads : WorkerStep(w)
  \/ \E w \in Threads : WorkerExit(w)

\* JobManager() called from NumThreads threads at once
SpecCtor == InitCtor /\ [][NextCtor]_vars

NextPipe ==
  \/ PipeNew
  \/ PipeNewRaise
  \/ PipeLoad
  \/ PipeCancel
  \/ PipeLoopExit
  \/ PipeChunkOpen
  \/ PipeChunkDone
  \/ PipeChunkEncoderExit
  \/ PipeChunkRaise
  \/ PipeSaveOpen
  \/ PipeSaveWrite
  \/ PipeSaveFail
  \/ PipeStitch
  \/ PipeStitchRaise
  \/ PipeCleanup
  \/ PipeRename
  \/ PipeNoChunk
  \/ PipeReturn
  \/ PipeCrash

\* the runs of the chunked pipeline, one after another, on one disk
SpecPipe == Init /\ [][NextPipe]_vars

\* A Pipeline just built, for any frame count and chunk size, on a disk
\* whose checkpoint file is absent or names any frame
InitChunks ==
  /\ InitManager
  /\ \E total \in 0..MaxTotal, chunk_frames \in 1..MaxTotal :
       pl = NewPipeline(1, total, chunk_frames, TRUE, NoRun)
  /\ \E last \in 0..(MaxTotal + 1) :
       ckpt \in {NoCheckpoint, Checkpoint(last, MaxTotal, 1, "libx264", 18)}
  /\ files = {}
  /\ out = <<>>
  /\ EmptyStore
  /\ calc = NoCalc

\* the first lines of process() on every such input
SpecChunks == InitChunks /\ [][PipeLoad]_vars

\* A caller of one CheckpointManager, with any keys and records
NextStore ==
  \/ \E key \in Keys, r \in Records : StoreSave(key, r)
  \/ \E key \in Keys : StoreClear(key)

SpecStore == Init /\ [][NextStore]_vars

\* Pipeline runs for any inputs and stylizers on one checkpoint_dir
NextKeys ==
  \/ \E run \in RunIds, r \in Records : RunSave(run, r)
  \/ \E run \in RunIds : RunClear(run)

SpecKeys == Init /\ [][NextKeys]_vars

\* infer_tiled on a frame of any size up to MaxDim, of either dtype, with
\* any overlap below the tile size, through a model that returns its input
InitTiles ==
  /\ InitManager /\ NoPipelineYet /\ EmptyStore
  /\ \E h \in 1..MaxDim, w \in 1..MaxDim, overlap \in Overlaps, dtype \in Dtypes :
       calc = [fn |-> "infer_tiled", h |-> h, w |-> w, overlap |-> overlap,
               dtype |-> dtype, done |-> FALSE,
               out |-> [raised |-> FALSE, h |-> 0, w |-> 0, img |-> <<>>]]

SpecTiles == InitTiles /\ [][CallInferTiled]_vars

\* process() up to the chunk list, for any frame rate, chunk duration,
\* frame count and start frame
InitFrames ==
  /\ InitManager /\ NoPipelineYet /\ EmptyStore
  /\ \E fps \in FrameRates, d \in ChunkDurations, total \in FrameTotals,
        start \in StartFrames :
       calc = [fn |-> "process", pc |-> "start", fps |-> fps,
               chunk_duration |-> d, total_frames |-> total,
               start_frame |-> start, chunk_frames |-> 0, current |-> 0,
               chunks |-> <<>>]

NextFrames ==
  \/ ProcessChunkFrames
  \/ CalculateChunksStep
  \/ CalculateChunksReturn

SpecFrames == InitFrames /\ [][NextFrames]_vars

\* the thread that called process() keeps running
FairSpecFrames == SpecFrames /\ WF_vars(NextFrames)

\* _scale_params on the parameters of a Cartoon style, for any rule-table
\* value and any intensity of the slider
InitScale ==
  /\ InitManager /\ NoPipelineYet /\ EmptyStore
  /\ \E params \in CartoonParams, t \in Intensities :
       calc = [fn |-> "scale_params", params |-> params, intensity |-> t,
               done |-> FALSE, scaled |-> params]

SpecScale == InitScale /\ [][CallScaleParams]_vars

\* The job manager with the failures of the analysis inside
\* VideoProcessor(...) told apart
NextAnalysis ==
  \/ AddJob
  \/ \E id \in 1..MaxJobs : CancelJob(id)
  \/ \E w \in Threads : WorkerStep(w)
  \/ \E w \in Threads : WorkerSampleRaise(w)
  \/ \E w \in Threads : WorkerAnalyzeRaise(w)

SpecAnalysis == Init /\ [][NextAnalysis]_vars

\* The two programs that probe an input: one that builds a Pipeline
\* (line 38) and runs it, and one that runs the JobManager, whose worker
\* builds a VideoProcessor (video_processor.py 35). No program of the
\* repository does both: JobManager never builds a Pipeline.
NextProbe ==
  \/ objs = <<>> /\ NextPipe
  \/ pl = NoPipeline /\ AddJob
  \/ pl = NoPipeline /\ \E id \in 1..MaxJobs : CancelJob(id)
  \/ pl = NoPipeline /\ \E w \in Threads : WorkerStep(w)

SpecProbe == Init /\ [][NextProbe]_vars

\* The job manager with the end of _process_job taken one assignment at a
\* time. get_job and get_all_jobs (lines 159-165) return the Job objects
\* themselves and take no lock, so a thread that holds one reads its
\* fields as they are in whatever state the worker has reached.
WorkerStepFine(w) ==
  \/ WorkerGet(w)
  \/ WorkerStart(w)
  \/ WorkerStartRaise(w)
  \/ WorkerFrames(w)
  \/ WorkerStyleDone(w)
  \/ WorkerStyleRaise(w)
  \/ WorkerFinishStatus(w)
  \/ WorkerFinishRest(w)
  \/ WorkerExcept(w)

NextObs ==
  \/ AddJob
  \/ \E id \in 1..MaxJobs : CancelJob(id)
  \/ \E w \in Threads : WorkerStepFine(w)

SpecObs == Init /\ [][NextObs]_vars

\* ------------------------------------------------------------ properties
Busy(w) == wk[w].pc \in {"start", "run", "finish", "except"}

\* C1: a job cancelled while Queued (Cancelled, never started) is not
\* started when the worker dequeues its id: it never becomes Processing
C1_CancelledQueuedNeverStarts ==
  [][\A h \in DOMAIN objs :
       (objs[h].status = "Cancelled" /\ ~objs[h].started)
         => objs'[h].status # "Processing"]_vars

\* C2: once a job's status is terminal it stays terminal
C2_TerminalStaysTerminal ==
  [][\A h \in DOMAIN objs :
       Terminal(objs[h].status) => Terminal(objs'[h].status)]_vars

\* C3: while a job is Processing no progress update lowers its progress
C3_ProgressNonDecreasing ==
  [][\A h \in DOMAIN objs :
       (objs[h].status = "Processing" /\ objs'[h].status = "Processing")
         => objs'[h].progress >= objs[h].progress]_vars

\* C4: at most one worker thread consumes the queue and at most one job
\* is being processed, also when JobManager() is called from several threads
C4_OneWorkerOneJob ==
  /\ Cardinality({w \in workers : wk[w].pc # "exited"}) <= 1
  /\ Cardinality({w \in workers : Busy(w)}) <= 1

\* C5: when a job in which an exception was raised (by VideoProcessor(...)
\* or by one of its styles) leaves _process_job, its status is Failed and
\* the worker is back at the head of its loop, still running; and a worker
\* at the head of its loop takes the next id whenever the queue holds one
C5_FailedJobWorkerContinues ==
  /\ [][\A w \in Threads :
          ( /\ wk[w].pc = "except" \/ (wk[w].pc = "finish" /\ ~wk[w].success)
            /\ wk'[w] # wk[w] )
          => /\ objs'[wk[w].job].status = "Failed"
             /\ wk'[w].pc = "get"
             /\ is_running' ]_vars
  /\ [](\A w \in workers :
          (wk[w].pc = "get" /\ job_queue # <<>>) => ENABLED WorkerGet(w))

\* C5 witness: a job has failed and the worker is processing another one
C5_Witness ==
  \E h1 \in DOMAIN objs, h2 \in DOMAIN objs :
    /\ h1 # h2
    /\ objs[h1].status = "Failed"
    /\ objs[h1].error # "None"
    /\ wk[1].pc = "run" /\ wk[1].job = h2

\* C6: every job submitted with add_job eventually has a terminal status
C6_EveryJobTerminates ==
  \A h \in Handles :
    (h \in DOMAIN objs) ~> (h \in DOMAIN objs /\ Terminal(objs[h].status))

\* C7: a job cancelled while the worker processes it gets no further
\* frames processed and keeps the status Cancelled when the worker
\* finishes with it
C7_CancelStopsProcessing ==
  [][\A w \in Threads :
       (wk[w].pc \in {"run", "finish", "except"}
          /\ objs[wk[w].job].status = "Cancelled")
       => /\ objs'[wk[w].job].status = "Cancelled"
          /\ wk'[w].frame <= wk[w].frame ]_vars

\* C8: cancel_job(id) sets the status to Cancelled when the job is Queued
\* or Processing and changes nothing otherwise; every other field, every
\* other job, the registry and the queue are unchanged in both cases.
\* (A step that moves a worker or clear_completed, or that creates a job,
\* is no step of cancel_job, and a step that changes nothing keeps every
\* frame; the first line passes over those.)
C8_CancelFrame ==
  [][ (cpc' = cpc /\ Len(objs') = Len(objs) /\ wk' = wk /\ vars' # vars) =>
      \A id \in 1..MaxJobs :
        CancelJob(id) =>
          LET h == Lookup(jobs, id) IN
          /\ (h # 0 /\ objs[h].status \in {"Queued", "Processing"})
               => /\ objs'[h].status = "Cancelled"
                  /\ objs'[h] = [objs[h] EXCEPT !.status = "Cancelled"]
                  /\ \A g \in DOMAIN objs : g # h => objs'[g] = objs[g]
          /\ ~(h # 0 /\ objs[h].status \in {"Queued", "Processing"})
               => objs' = objs
          /\ jobs' = jobs /\ job_queue' = job_queue ]_vars

\* C8 witness: the registry holds a job that cancel_job cancelled while
\* it was being processed and a job that ended Completed or Failed
C8_Witness ==
  \E i \in DOMAIN jobs, k \in DOMAIN jobs :
    /\ objs[jobs[i].obj].status = "Cancelled" /\ objs[jobs[i].obj].started
    /\ objs[jobs[k].obj].status \in {"Completed", "Failed"}

\* C9: clear_completed deletes no job that is Queued or Processing, and
\* when it returns it has deleted every job it found terminal
C9_ClearRemovesExactlyTerminal ==
  [][ (cpc = "scan" /\ cpc' = "idle") =>
        /\ \A i \in DOMAIN jobs :
             jobs[i].id \notin RegKeys(jobs') => Terminal(objs[jobs[i].obj].status)
        /\ \A k \in DOMAIN to_remove : to_remove[k] \notin RegKeys(jobs') ]_vars

\* C10: the id add_job gives a job differs from the id of every job
\* submitted earlier
C10_IdsNeverReused ==
  \A h1 \in DOMAIN objs, h2 \in DOMAIN objs :
    h1 # h2 => objs[h1].id # objs[h2].id

\* ------------------------------------------------- properties: pipeline
\* C11: for a chunk size of at least one frame, any frame count and any
\* start_frame, the chunks _calculate_chunks returns are non-empty ranges
\* of at most chunk_frames frames, each starting where the one before
\* ended, the first at start_frame and the last ending at total_frames;
\* every frame of [start_frame, total_frames) is in exactly one of them,
\* and there is no chunk when that range is empty
C11_ChunksPartitionRange ==
  pl.pc = "loop" =>
    LET cs == pl.chunks
        s == pl.start_frame
        n == pl.total_frames IN
    /\ \A k \in DOMAIN cs :
         /\ cs[k].start < cs[k].end
         /\ cs[k].end - cs[k].start <= pl.chunk_frames
    /\ \A k \in DOMAIN cs : k > 1 => cs[k].start = cs[k - 1].end
    /\ cs # <<>> => cs[1].start = s /\ cs[Len(cs)].end = n
    /\ (cs = <<>>) <=> (s >= n)
    /\ \A f \in s..(n - 1) :
         Cardinality({k \in DOMAIN cs : cs[k].start <= f /\ f < cs[k].end}) = 1

\* C11 witness: a resume from a frame inside the input, several chunks,
\* the last one shorter than chunk_frames
C11_Witness ==
  /\ pl.pc = "loop"
  /\ pl.start_frame > 0
  /\ Len(pl.chunks) >= 2
  /\ pl.chunks[Len(pl.chunks)].end - pl.chunks[Len(pl.chunks)].start < pl.chunk_frames

\* C12: process() takes start_frame from the checkpoint only when a
\* checkpoint exists for its key and records the codec and the crf this
\* run was asked for; without a checkpoint, or with a different codec or
\* crf, it starts from frame 0
C12_ResumeOnlyOnMatch ==
  [][(pl.pc = "built" /\ pl'.pc = "loop") =>
       pl'.start_frame =
         IF /\ pl.has_mgr
            /\ ckpt.state = "valid"
            /\ ckpt.codec = pl'.codec
            /\ ckpt.crf = pl'.crf
         THEN ckpt.last_frame
         ELSE 0]_vars

\* C13: once process() has left its loop on a cancellation with chunks
\* still to do, nothing is written at the output path, the files of the
\* chunks already finished stay on disk and the checkpoint stays as it is
C13_CancelKeepsChunksNoOutput ==
  [][(/\ pl.pc \in {"stitch", "cleanup", "clear"}
      /\ pl.is_cancelled
      /\ Len(pl.chunk_outputs) < Len(pl.chunks)) =>
       (out' = out /\ files' = files /\ ckpt' = ckpt)]_vars

\* C14: when a run of process() crashed after completing at least one
\* chunk, the next run with the same checkpoint key, codec and crf starts
\* at the end of the last chunk the crashed run completed, so that the
\* chunks of the two runs hold every frame once and no completed chunk
\* is processed again
C14_ResumeAfterCrash ==
  [][(/\ pl.pc = "built" /\ pl'.pc = "loop"
      /\ pl.has_mgr
      /\ pl.prev.pc = "crashed"
      /\ pl.prev.completed >= 1
      /\ pl'.codec = pl.prev.codec
      /\ pl'.crf = pl.prev.crf) =>
       pl'.start_frame = pl.prev.frames_processed]_vars

\* C15: when process() returns from a run that was not cancelled and had
\* chunks to process, the file at the output path is made of the files of
\* exactly that run's chunks, in chunk order, and holds
\* total_frames - start_frame frames
C15_OutputHoldsRunFrames ==
  [][(/\ pl.pc = "clear" /\ pl'.pc = "returned"
      /\ ~pl.is_cancelled
      /\ pl.chunks # <<>>) =>
       /\ Len(out) = Len(pl.chunks)
       /\ \A k \in DOMAIN pl.chunks :
            out[k].start = pl.chunks[k].start /\ out[k].end = pl.chunks[k].end
       /\ FrameCount(out) = pl.total_frames - pl.start_frame]_vars

\* C16: a failure of the encoder or decoder process during a chunk (a
\* non-zero exit status, a broken pipe) ends process() with an exception:
\* the chunk is not appended to the completed ones, process() does not go
\* on to save a checkpoint for it, and the checkpoint stays as it was
C16_EncoderFailureAborts ==
  [][(PipeChunkRaise \/ PipeChunkEncoderExit) =>
       /\ pl'.pc = "raised"
       /\ pl'.chunk_outputs = pl.chunk_outputs
       /\ ckpt' = ckpt]_vars

\* C17: when the concatenation of the chunk files fails, process() ends
\* with the exception instead of returning, and every chunk file of the
\* run is still on disk, unchanged
C17_StitchFailureKeepsChunks ==
  [][PipeStitchRaise =>
       /\ pl'.pc = "raised"
       /\ files' = files
       /\ \A k \in DOMAIN pl.chunk_outputs : HasFile(files', pl.chunk_outputs[k])]_vars

\* C17 witness: process() has raised from the stitch of two or more
\* chunks whose files are on disk
C17_Witness ==
  /\ pl.pc = "raised"
  /\ pl.err = "stitch"
  /\ Len(pl.chunk_outputs) >= 2
  /\ \A k \in DOMAIN pl.chunk_outputs : HasFile(files, pl.chunk_outputs[k])

\* C18: a probe that fails raises before anything is started. In
\* Pipeline(...): no reader or writer has been opened, no chunk is listed
\* or done, and the chunk files, the output file and the checkpoint are
\* as they were, then and until another Pipeline is built. In the worker:
\* no style pass has started and no frame was read when VideoProcessor(...)
\* raises, and the job leaves _process_job with status Failed.
C18_ProbeFailureAbortsEarly ==
  /\ [](pl.pc = "raised" /\ pl.err = "probe" =>
          ~pl.opened /\ pl.chunks = <<>> /\ pl.chunk_outputs = <<>>)
  /\ [][(PipeNewRaise \/ (pl.pc = "raised" /\ pl.err = "probe")) =>
          (files' = files /\ out' = out /\ ckpt' = ckpt)]_vars
  /\ [][(pl.pc = "raised" /\ pl.err = "probe" /\ pl' # pl) =>
          (pl'.pc \in {"built", "raised"} /\ pl'.runs = pl.runs + 1)]_vars
  /\ [][\A w \in Threads :
          WorkerStartRaise(w) =>
            /\ wk'[w].pc = "except"
            /\ wk'[w].style = 0 /\ wk'[w].frame = 0]_vars
  /\ [][\A w \in Threads :
          (wk[w].pc = "except" /\ wk'[w] # wk[w]) =>
            objs'[wk[w].job].status = "Failed"]_vars

\* C18 witness, Pipeline: the constructor has raised from the probe
\* while chunk files and a checkpoint of an earlier run are on disk
C18_Witness ==
  /\ pl.pc = "raised" /\ pl.err = "probe"
  /\ files # {}
  /\ ckpt.state = "valid"

\* C19: when process() returns from a run with a checkpoint key that was
\* not cancelled, the checkpoint file of the key is gone: load(key)
\* returns None, and a run that loads it next starts from frame 0
C19_SuccessClearsCheckpoint ==
  /\ [][(pl.pc = "clear" /\ pl'.pc = "returned"
           /\ pl.has_mgr /\ ~pl.is_cancelled) =>
          ckpt' = NoCheckpoint]_vars
  /\ [](pl.pc = "returned" /\ pl.has_mgr /\ ~pl.is_cancelled =>
          ckpt.state = "absent" /\ StartFrame(pl.has_mgr, ckpt) = 0)

\* C19 witness: a run resumed from a checkpoint has completed its chunks
\* and returned with success
C19_Witness ==
  /\ pl.pc = "returned"
  /\ pl.has_mgr /\ ~pl.is_cancelled
  /\ pl.start_frame > 0
  /\ Len(pl.chunk_outputs) = Len(pl.chunks)
  /\ pl.chunks # <<>>
  /\ ckpt = NoCheckpoint

\* C20: whatever moment a thread reads a Job it got from get_job or
\* get_all_jobs, the fields belong to one update: a job whose status is
\* Completed has progress 100
C20_JobReadIsConsistent ==
  \A i \in DOMAIN jobs :
    objs[jobs[i].obj].status = "Completed" => objs[jobs[i].obj].progress = 100

\* C21: a job whose status is Failed has in Job.error the message of the
\* exception that made it fail, whether VideoProcessor(...) raised or one
\* of its styles did: the field is neither unset nor a placeholder
C21_FailedJobHasItsError ==
  \A h \in DOMAIN objs :
    objs[h].status = "Failed" => objs[h].error = "exc"

\* C22: the CheckpointManager is a map from keys to records. After
\* save(key, r) load(key) returns r; after clear(key), and for a key never
\* saved, load(key) returns None; a second clear(key) changes nothing;
\* list_checkpoints returns exactly the keys whose load is not None; and a
\* call on one key leaves what load returns for every other key
C22_StoreIsKeyValueMap ==
  /\ [](op.name = "save" => Loaded(store, op.key) = op.rec)
  /\ [](op.name = "clear" => Loaded(store, op.key) = NoCheckpoint)
  /\ [](op.name = "none" => \A k \in Keys : Loaded(store, k) = NoCheckpoint)
  /\ [](\A k \in Keys : Cleared(Cleared(store, k), k) = Cleared(store, k))
  /\ [](ListCheckpoints(store) = {k \in Keys : Loaded(store, k) # NoCheckpoint})
  /\ [][\A k \in Keys :
          k # op'.key => Loaded(store', k) = Loaded(store, k)]_vars

\* C23: two pipeline runs that differ in the input file or in the style
\* have different checkpoint keys: when one of them saves or clears its
\* checkpoint, what the other would load (and resume from) is unchanged
C23_RunsHaveOwnCheckpoint ==
  [][\A a \in RunIds, b \in RunIds :
       (a # b /\ ((\E r \in Records : RunSave(a, r)) \/ RunClear(a))) =>
         Loaded(store', JobKey(b)) = Loaded(store, JobKey(b))]_vars

\* C24: infer_tiled on a frame with a side longer than the tile size,
\* through a model that returns its input, returns a frame of the same
\* height and width in which every pixel has the value it had in the
\* input
C24_IdentityTilesRestoreFrame ==
  (calc.fn = "infer_tiled" /\ calc.done
     /\ (calc.h > TileSize \/ calc.w > TileSize)) =>
    /\ ~calc.out.raised
    /\ calc.out.h = calc.h /\ calc.out.w = calc.w
    /\ \A r \in 0..(calc.h - 1), c \in 0..(calc.w - 1) :
         calc.out.img[<<r, c>>] = Pixel(r, c)

\* C25: when the sampling of frames or the computation of the
\* characteristics fails, VideoProcessor(...) still returns: the job stays
\* Processing and goes on to its styles, with the default characteristics
\* when no frame could be analysed; the failure does not send the job to
\* the except branch that sets Failed
C25_AnalysisFailureNotFatal ==
  [][\A w \in Threads :
       (WorkerSampleRaise(w) \/ WorkerAnalyzeRaise(w)) =>
         /\ wk'[w].pc \in {"run", "finish"}
         /\ objs'[wk[w].job].status = "Processing"
         /\ ~calc'.raised
         /\ calc'.samples = 0 => calc'.characteristics = "default"]_vars

\* C26: process() looks at the cancellation flag at the head of each
\* iteration: with the flag set no chunk is started; a cancel() that
\* arrives while a chunk is being written leaves the chunk in progress,
\* its file untouched, and the chunk then completes with all its frames
\* and is listed among the chunk outputs
C26_CancelBetweenChunksOnly ==
  [][/\ (pl.pc = "loop" /\ pl.is_cancelled) =>
          (pl'.pc # "chunk" /\ files' = files)
     /\ (pl.pc = "chunk" /\ ~pl.is_cancelled /\ pl'.pc = "chunk"
           /\ pl'.is_cancelled) =>
          (files' = files /\ pl'.i = pl.i
             /\ pl'.chunk_outputs = pl.chunk_outputs)
     /\ (pl.pc = "chunk" /\ pl.is_cancelled /\ PipeChunkDone) =>
          /\ pl'.chunk_outputs = Append(pl.chunk_outputs, pl.chunks[pl.i])
          /\ FileOf(files', pl.chunks[pl.i]).n =
               pl.chunks[pl.i].end - pl.chunks[pl.i].start
          /\ pl'.frames_processed = pl.chunks[pl.i].end]_vars

\* C26 witness: a cancelled run has left its loop with a finished chunk
\* and with chunks it never started, which have no file
C26_Witness ==
  /\ pl.pc = "stitch"
  /\ pl.is_cancelled
  /\ Len(pl.chunk_outputs) >= 1
  /\ Len(pl.chunk_outputs) < Len(pl.chunks)
  /\ \A k \in DOMAIN pl.chunks :
       k > Len(pl.chunk_outputs) => ~HasFile(files, pl.chunks[k])

\* C27: chunk_frames is chunk_duration * fps rounded to the nearest
\* integer (no integer is nearer to the product); with 300 frames at
\* 30 fps and no checkpoint, 10 s gives chunk_frames 300 and the one chunk
\* [0,300), and 5 s gives chunk_frames 150 and the two chunks [0,150),
\* [150,300)
C27_ChunkFramesIsNearest ==
  (calc.fn = "process" /\ calc.pc # "start") =>
    LET num == calc.chunk_duration * calc.fps.num
        den == calc.fps.den
        off == calc.chunk_frames * den - num
    IN  /\ 2 * off <= den /\ 2 * (0 - off) <= den
        /\ (calc.pc = "returned" /\ calc.fps = [num |-> 30, den |-> 1]
              /\ calc.total_frames = 300 /\ calc.start_frame = 0) =>
             /\ calc.chunk_duration = 10 =>
                  /\ calc.chunk_frames = 300
                  /\ calc.chunks = <<[start |-> 0, end |-> 300]>>
             /\ calc.chunk_duration = 5 =>
                  /\ calc.chunk_frames = 150
                  /\ calc.chunks = <<[start |-> 0, end |-> 150],
                                     [start |-> 150, end |-> 300]>>

\* C29: the chunk computation of process() ends and returns its list,
\* every iteration of its loop moves the current frame forward, and every
\* chunk of the list holds at least one frame, for every chunk duration,
\* frame rate, frame count and start frame
C29_ChunkComputationEnds ==
  /\ [](calc.fn = "process" =>
          \A k \in DOMAIN calc.chunks : calc.chunks[k].end > calc.chunks[k].start)
  /\ [][CalculateChunksStep => calc'.current > calc.current]_vars
  /\ <>(calc.fn = "process" /\ calc.pc = "returned")

\* C28: the num_colors that _scale_params returns for a rule-table value
\* and an intensity from 0.1 to 2.0 is no greater than the one it returns
\* for the same value at any lower intensity, and it is at least 1
C28_NumColorsInverseAndBounded ==
  (calc.fn = "scale_params" /\ calc.done) =>
    /\ \A t \in Intensities :
         t < calc.intensity =>
           ScaleNumColors(calc.params.num_colors, t) >= calc.scaled.num_colors
    /\ calc.scaled.num_colors >= 1

\* C30: when process() has returned with success true, a file is at the
\* output path and none of the chunks of the run has a file on disk
C30_SuccessLeavesOneOutput ==
  (pl.pc = "returned" /\ ~pl.is_cancelled) =>
    /\ out # <<>>
    /\ \A k \in DOMAIN pl.chunks : ~HasFile(files, pl.chunks[k])
====
